---- MODULE Spec2Model ----
(***************************************************************************)
(* A model of run_simulation.py: the two mask builders                     *)
(* (creating_mask_null, creating_mask_causal), the variant selector        *)
(* (select_variants_for_cmac), the linkage matrix and its per-set          *)
(* sub-blocks (RVsimulation._get_ld_matrix, _get_cov_mat), the per-set     *)
(* significance count and the aggregation (RVsimulation.run), and the      *)
(* control flow of run().                                                  *)
(*                                                                         *)
(* Variant indices are 1-based here: model index k is Python index k-1.   *)
(* Python lists and numpy arrays are sequences.                            *)
(***************************************************************************)
EXTENDS Integers, Sequences, FiniteSets, TLC

VARIABLES
    \* ---- the mask builders (creating_mask_null / creating_mask_causal)
    mode,                 \* "null" | "causal" | "none": which builder runs (run(), line 446)
    n_variants_list,      \* len(mac) per chromosome (line 233 / 288)
    cmac_bins_count,      \* the parameter cmac_bins_count
    i,                    \* position of the for loop over chr_list (0: not entered)
    mac,                  \* mac = mac_dict[chr] of the chromosome being processed
    causal_idxs,          \* causal_idxs = causal_idx_dict[chr]
    b,                    \* position of the for loop over cmac_bins (0: not entered)
    output,               \* the list output of the bin being processed
    stored,               \* the entry last written by gene_numeric_idxs[bin] = output
    pc,                   \* the builder's (and the selector's) position
    causal_variants_cmac, \* the causal-contribution target drawn at line 318
    causal_variants,      \* the array returned at line 319
    non_causal_variants,  \* the array returned at line 325
    n_added,              \* the counter of the inner while loop (line 320)
    \* ---- select_variants_for_cmac
    caller,               \* who called the selector: "causal" | "filler" | "direct"
    s_map,                \* the argument mac_positions
    s_cmac,               \* the argument cmac
    macs,                 \* the eligible MAC values (lines 345-346, 354)
    combo,                \* the list combo
    current_cmac,         \* the running sum current_cmac
    selected_variants,    \* the list selected_variants
    \* ---- RVsimulation: linkage matrix and per-set sub-blocks
    geno,                 \* sparse_genotype_dict[chr]: rows = variants, columns = subject groups
    vset_ld,              \* vset_ld_dict[chr]
    sub_ld,               \* the blocks vset_ld[numeric_idx][:, numeric_idx] read by _get_cov_mat
    \* ---- RVsimulation: the test runner and the aggregation
    sim,                  \* the state of _variant_set_test / run(sample_id)
    \* ---- run(args, log)
    prog                  \* the state of one execution of run()

mbvars == <<mode, n_variants_list, cmac_bins_count, i, mac, causal_idxs, b, output,
            stored, pc, causal_variants_cmac, causal_variants, non_causal_variants,
            n_added>>
selvars == <<caller, s_map, s_cmac, macs, combo, current_cmac, selected_variants>>
ldvars == <<geno, vset_ld, sub_ld>>
vars == <<mbvars, selvars, ldvars, sim, prog>>

(***************************************************************************)
(* Bounds of the model.                                                    *)
(***************************************************************************)
NChr == 2              \* chromosomes in mac_dict
MaxCount == 3          \* largest cmac_bins_count
NBins == 2             \* the builders process the first NBins bins of cmac_bins
MaxVariants == 3       \* variants per chromosome, null mode and direct selector calls
MaxMac == 2            \* largest MAC of a variant, null mode and direct selector calls
MaxCausalVariants == 2 \* variants per chromosome, causal mode
MaxCausalMac == 1      \* largest MAC of a variant, causal mode
MaxZeroDraws == 1      \* draws of a MAC value 0 in one selector call
MaxTarget == 4         \* largest target of a direct selector call

Min(x, y) == IF x <= y THEN x ELSE y
Max(x, y) == IF x >= y THEN x ELSE y

(***************************************************************************)
(* The fixed bins (lines 230-232, 285-287 and 78-80).                      *)
(***************************************************************************)
cmac_bins ==
    << <<2, 2>>, <<3, 3>>, <<4, 4>>, <<5, 5>>, <<6, 7>>, <<8, 9>>, <<10, 11>>,
       <<12, 14>>, <<15, 20>>, <<21, 30>>, <<31, 60>>, <<61, 100>>, <<101, 500>>,
       <<501, 1000>> >>

NBinsUsed == Min(NBins, Len(cmac_bins))

RECURSIVE SumSeq(_)
SumSeq(s) == IF s = <<>> THEN 0 ELSE s[1] + SumSeq(Tail(s))

\* mac[selected_variants]: numpy indexing with an index array
TakeMac(m, idx) == [k \in 1..Len(idx) |-> m[idx[k]]]

\* a sum that leaves the last member of the window out
CMacDropLast(m, idx) == SumSeq(TakeMac(m, SubSeq(idx, 1, Len(idx) - 1)))

\* np.sum(mac[selected_variants]) (line 254)
CMac(m, idx) == SumSeq(TakeMac(m, idx))

Range(s) == {s[k] : k \in 1..Len(s)}

\* (n_variants_list / np.sum(n_variants_list) * cmac_bins_count).astype(int);
\* the float64 product truncates to this floor for every input within the bounds
n_genes_chr_list(nlist, count) ==
    [k \in 1..Len(nlist) |-> (nlist[k] * count) \div SumSeq(nlist)]

n_genes == n_genes_chr_list(n_variants_list, cmac_bins_count)[i]

bin == cmac_bins[b]

\* bin[0] <= cmac <= bin[1], with the upper test dropped
InBinNoUpper(cmac, bn) == bn[1] <= cmac

\* bin[0] <= cmac <= bin[1] (line 255)
InBin(cmac, bn) == bn[1] <= cmac /\ cmac <= bn[2]

\* the values of np.random.randint(*window_range), line 245 and 249
window_range(bn) == Max(2, bn[1] \div 10) .. bn[2]

\* skip_size = int(window_size * 0.8) + 1
skip_size(w) == (w * 8) \div 10 + 1

\* np.random.permutation(n_variants) applied to np.arange(n_variants)
PermutedIdxs(n) ==
    {p \in [1..n -> 1..n] : \A x, y \in 1..n : x # y => p[x] # p[y]}

\* permuted_variant_idxs[start: end], end = start + window_size (lines 252-253)
Window(perm, start, w) == SubSeq(perm, start + 1, start + w)

\* the inner while loop of creating_mask_null (lines 251-259), from position start
RECURSIVE ScanWindows(_, _, _, _, _, _, _)
ScanWindows(m, perm, w, bn, quota, start, out) ==
    IF start + w < Len(m)
    THEN LET selected == Window(perm, start, w)
             cmac == CMac(m, selected)
         IN  IF InBin(cmac, bn)
             THEN LET out2 == Append(out, selected)
                  IN  IF Len(out2) >= quota
                      THEN out2
                      ELSE ScanWindows(m, perm, w, bn, quota, start + skip_size(w), out2)
             ELSE ScanWindows(m, perm, w, bn, quota, start + skip_size(w), out)
    ELSE out

\* MAC vectors of a chromosome with n variants
MacVectors(n) == [1..n -> 0..MaxMac]

\* MAC vectors of a chromosome with n variants given to the builder of mode md
MacVectorsOf(md, n) == IF md = "causal" THEN [1..n -> 0..MaxCausalMac] ELSE MacVectors(n)

RECURSIVE SetToSeq(_)
SetToSeq(S) ==
    IF S = {} THEN <<>>
    ELSE LET x == CHOOSE y \in S : \A z \in S : y <= z
         IN  <<x>> \o SetToSeq(S \ {x})

\* causal index arrays of a chromosome with n variants (ascending, no repeats)
CausalArrays(n) == {SetToSeq(S) : S \in SUBSET (1..n)}

\* np.arange(n_variants)
arange(n) == [k \in 1..n |-> k]

\* variant_idxs = np.setdiff1d(np.arange(n_variants), causal_idxs) (line 299)
variant_idxs(m, causal) == SetToSeq((1..Len(m)) \ Range(causal))

\* a defaultdict(list) filled by  for idx in idxs: d[mac[idx]].append(idx)
PositionsMap(m, idxs) ==
    [x \in {m[idxs[k]] : k \in 1..Len(idxs)} |->
        SelectSeq(idxs, LAMBDA v : m[v] = x)]

\* mac_positions (lines 303-305): filled from enumerate(mac), every variant of
\* the chromosome, the causal ones included; variant_idxs is not read
mac_positions(m) == PositionsMap(m, arange(Len(m)))

\* causal_mac_positions (lines 308-310)
causal_mac_positions(m, causal) == PositionsMap(m, causal)

\* upper_bound = max(int(((bin[0] + bin[1]) // 2 * 0.5)), 2) (line 317)
upper_bound(bn) == Max(((bn[1] + bn[2]) \div 2) \div 2, 2)

\* the values of np.random.randint(1, upper_bound) (line 318)
CausalTargets(bn) == 1 .. (upper_bound(bn) - 1)

\* the draw made without subtracting the causal contribution
NonCausalTargetsNoSub(bn, c) == bn[1] .. bn[2]

\* the values of np.random.randint(max(bin[0]-c, 1), bin[1]-c+1) (lines 322-324)
NonCausalTargets(bn, c) == Max(bn[1] - c, 1) .. (bn[2] - c)

\* the filter with a strict comparison
EligibleStrict(keys, remaining) == {x \in keys : x < remaining}

\* macs = macs[macs <= remaining] (lines 346 and 354)
Eligible(keys, remaining) == {x \in keys : x <= remaining}

ZeroDraws(cb) == Cardinality({k \in 1..Len(cb) : cb[k] = 0})

\* the loop counter bound of the inner while loop (line 321)
MaxAdded == 10

\* the width of the position window (line 361)
PickWidth == 20

\* mac_positions[mac][i:j] for i = int(n_variants * x), j = min(i + 20, n_variants)
PickWindow(lst, i0) ==
    {lst[k] : k \in (i0 + 1) .. Min(i0 + PickWidth, Len(lst))}

(***************************************************************************)
(* The linkage matrix.  A genotype matrix is given by its distinct         *)
(* columns: column g stands for GroupSize[g] subjects with that genotype.  *)
(***************************************************************************)
HeavyGroup == 40000  \* subjects sharing the genotype column of the second group

GroupSize == <<1, HeavyGroup>>

Genotypes(n) == [1..n -> [1..Len(GroupSize) -> {0, 1, 2}]]

\* mac = sparse_genotype.sum(axis=1) (line 399)
RowSums(g) ==
    [v \in 1..Len(g) |-> SumSeq([s \in 1..Len(GroupSize) |-> GroupSize[s] * g[v][s]])]

\* the dot product of two genotype rows, in the integers
Dot(g, v, u) == SumSeq([s \in 1..Len(GroupSize) |-> GroupSize[s] * g[v][s] * g[u][s]])

\* np.uint16 (line 91)
UInt16 == 65536

\* vset = vset.astype(np.uint16); vset_ld = vset @ vset.T (lines 91-92)
LdMatrix(g) == [v \in 1..Len(g) |-> [u \in 1..Len(g) |-> Dot(g, v, u) % UInt16]]

\* self.vset_ld_dict[chr][numeric_idx][:, numeric_idx] (line 126)
SubBlock(ld, idx) == [r \in 1..Len(idx) |-> [c \in 1..Len(idx) |-> ld[idx[r]][idx[c]]]]

(***************************************************************************)
(* The mask builders.                                                      *)
(***************************************************************************)
SelIdle ==
    /\ caller = "none" /\ s_map = <<>> /\ s_cmac = 0 /\ macs = {}
    /\ combo = <<>> /\ current_cmac = 0 /\ selected_variants = <<>>

MbIdle ==
    /\ mode = "none" /\ n_variants_list = <<>> /\ cmac_bins_count = 0 /\ i = 0
    /\ mac = <<>> /\ causal_idxs = <<>> /\ b = 0 /\ output = <<>> /\ stored = <<>>
    /\ causal_variants_cmac = 0 /\ causal_variants = <<>>
    /\ non_causal_variants = <<>> /\ n_added = 0

LdIdle == geno = <<>> /\ vset_ld = <<>> /\ sub_ld = <<>>

\* the selector's locals after it returned (or before it is called)
SelCleared ==
    /\ caller' = "none" /\ s_map' = <<>> /\ s_cmac' = 0 /\ macs' = {}
    /\ combo' = <<>> /\ current_cmac' = 0 /\ selected_variants' = <<>>

\* the state at the entry of creating_mask_null / creating_mask_causal
MbEntry ==
    /\ \/ mode = "null" /\ n_variants_list \in [1..NChr -> 1..MaxVariants]
       \/ mode = "causal" /\ n_variants_list \in [1..NChr -> 1..MaxCausalVariants]
    /\ cmac_bins_count \in 1..MaxCount
    /\ i = 0 /\ mac = <<>> /\ causal_idxs = <<>> /\ b = 0
    /\ output = <<>> /\ stored = <<>> /\ pc = "chr"
    /\ causal_variants_cmac = 0 /\ causal_variants = <<>>
    /\ non_causal_variants = <<>> /\ n_added = 0

\* for i, chr in enumerate(chr_list): the loop head and lines 238-241 / 293-310
EnterChr(m, c) ==
    /\ i' = i + 1
    /\ mac' = m
    /\ causal_idxs' = c
    /\ b' = 0
    /\ output' = <<>>
    /\ stored' = <<>>
    /\ pc' = "bin"
    /\ UNCHANGED <<mode, n_variants_list, cmac_bins_count, causal_variants_cmac,
                   causal_variants, non_causal_variants, n_added>>
    /\ UNCHANGED selvars

\* return chr_gene_numeric_idxs (lines 265 / 337)
ReturnMasks ==
    /\ pc = "chr"
    /\ i = Len(n_variants_list)
    /\ pc' = "done"
    /\ stored' = <<>>
    /\ UNCHANGED <<mode, n_variants_list, cmac_bins_count, i, mac, causal_idxs, b,
                   output, causal_variants_cmac, causal_variants,
                   non_causal_variants, n_added>>
    /\ UNCHANGED <<selvars, ldvars, sim, prog>>

\* the next chromosome: mac_dict[chr] (and causal_idx_dict[chr]) is an input of
\* the call, of the length counted at line 233 / 288, first read here
ForChr ==
    /\ pc = "chr"
    /\ i < Len(n_variants_list)
    /\ \E m \in MacVectorsOf(mode, n_variants_list[i + 1]) :
          \E c \in (IF mode = "causal" THEN CausalArrays(Len(m)) ELSE {<<>>}) :
             EnterChr(m, c)
    /\ UNCHANGED <<ldvars, sim, prog>>

\* for bin in cmac_bins: output = list() (lines 243-245 / 313-314)
ForBin ==
    /\ pc = "bin"
    /\ b < NBinsUsed
    /\ b' = b + 1
    /\ output' = <<>>
    /\ stored' = <<>>
    /\ pc' = IF mode = "null" THEN "pass" ELSE "outer"
    /\ causal_variants_cmac' = 0 /\ causal_variants' = <<>>
    /\ non_causal_variants' = <<>> /\ n_added' = 0
    /\ UNCHANGED <<mode, n_variants_list, cmac_bins_count, i, mac, causal_idxs>>
    /\ sub_ld' = <<>>
    /\ UNCHANGED <<selvars, geno, vset_ld, sim, prog>>

\* chr_gene_numeric_idxs[chr] = gene_numeric_idxs (lines 263 / 335); the locals
\* of the chromosome are dead from here on (each is assigned before it is read)
EndChr ==
    /\ pc = "bin"
    /\ b = NBinsUsed
    /\ pc' = "chr"
    /\ stored' = <<>>
    /\ mac' = <<>> /\ causal_idxs' = <<>> /\ b' = 0 /\ output' = <<>>
    /\ causal_variants_cmac' = 0 /\ causal_variants' = <<>>
    /\ non_causal_variants' = <<>> /\ n_added' = 0
    /\ UNCHANGED <<mode, n_variants_list, cmac_bins_count, i>>
    /\ geno' = <<>> /\ vset_ld' = <<>> /\ sub_ld' = <<>>
    /\ UNCHANGED <<selvars, sim, prog>>

\* the entry written by gene_numeric_idxs[bin] = output (lines 262 / 334)
Entry(out) == [chr |-> i, bin |-> bin, sets |-> out]

\* one iteration of the while True loop of creating_mask_null (lines 246-261),
\* and line 262 when the loop is left
NullPass ==
    /\ pc = "pass"
    /\ \E perm \in PermutedIdxs(Len(mac)) :
          \E window_size \in window_range(bin) :
             LET out == ScanWindows(mac, perm, window_size, bin, n_genes, 0, output)
             IN  /\ output' = out
                 /\ IF Len(out) >= n_genes
                    THEN stored' = <<Entry(out)>> /\ pc' = "bin"
                    ELSE stored' = stored /\ pc' = "pass"
    /\ UNCHANGED <<mode, n_variants_list, cmac_bins_count, i, mac, causal_idxs, b,
                   causal_variants_cmac, causal_variants, non_causal_variants, n_added>>
    /\ UNCHANGED <<selvars, ldvars, sim, prog>>

\* the call select_variants_for_cmac(positions, target) made by who
CallSelector(who, positions, target) ==
    /\ caller' = who
    /\ s_map' = positions
    /\ s_cmac' = target
    /\ macs' = {}
    /\ combo' = <<>>
    /\ current_cmac' = 0
    /\ selected_variants' = <<>>
    /\ pc' = "sel_call"

\* the head of the while True loop of creating_mask_causal (lines 315-319)
CausalDraw ==
    /\ pc = "outer"
    /\ \E c \in CausalTargets(bin) :
          /\ causal_variants_cmac' = c
          /\ CallSelector("causal", causal_mac_positions(mac, causal_idxs), c)
    /\ UNCHANGED <<mode, n_variants_list, cmac_bins_count, i, mac, causal_idxs, b,
                   output, stored, causal_variants, non_causal_variants, n_added>>
    /\ UNCHANGED <<ldvars, sim, prog>>

\* causal_variants = <the selector's result>; n_added = 0 (lines 319-320)
CausalReturn ==
    /\ pc = "sel_pick"
    /\ caller = "causal"
    /\ Len(selected_variants) = Len(combo)
    /\ causal_variants' = selected_variants
    /\ n_added' = 0
    /\ pc' = "inner"
    /\ UNCHANGED <<mode, n_variants_list, cmac_bins_count, i, mac, causal_idxs, b,
                   output, stored, causal_variants_cmac, non_causal_variants>>
    /\ SelCleared
    /\ UNCHANGED <<ldvars, sim, prog>>

\* while n_added < 10: the draw and the call of lines 321-325
FillerDraw ==
    /\ pc = "inner"
    /\ n_added < MaxAdded
    /\ \E t \in NonCausalTargets(bin, causal_variants_cmac) :
          CallSelector("filler", mac_positions(mac), t)
    /\ UNCHANGED <<mode, n_variants_list, cmac_bins_count, i, mac, causal_idxs, b,
                   output, stored, causal_variants_cmac, causal_variants,
                   non_causal_variants, n_added>>
    /\ UNCHANGED <<ldvars, sim, prog>>

\* lines 325-334: the set is appended without a test; both loops are left once
\* len(output) >= n_genes, and the outer loop draws again after 10 sets
FillerReturn ==
    /\ pc = "sel_pick"
    /\ caller = "filler"
    /\ Len(selected_variants) = Len(combo)
    /\ non_causal_variants' = selected_variants
    /\ LET out == Append(output, selected_variants \o causal_variants)
       IN  /\ output' = out
           /\ n_added' = n_added + 1
           /\ IF Len(out) >= n_genes
              THEN stored' = <<Entry(out)>> /\ pc' = "bin"
              ELSE /\ stored' = stored
                   /\ pc' = IF n_added + 1 < MaxAdded THEN "inner" ELSE "outer"
    /\ UNCHANGED <<mode, n_variants_list, cmac_bins_count, i, mac, causal_idxs, b,
                   causal_variants_cmac, causal_variants>>
    /\ SelCleared
    /\ UNCHANGED <<ldvars, sim, prog>>

(***************************************************************************)
(* select_variants_for_cmac.                                               *)
(***************************************************************************)
\* macs = np.array(list(mac_positions.keys())); macs = macs[macs <= cmac];
\* combo = list(); current_cmac = 0 (lines 345-348)
SelectCall ==
    /\ pc = "sel_call"
    /\ macs' = Eligible(DOMAIN s_map, s_cmac)
    /\ combo' = <<>>
    /\ current_cmac' = 0
    /\ pc' = "sel_loop"
    /\ UNCHANGED <<caller, s_map, s_cmac, selected_variants>>
    /\ UNCHANGED <<mode, n_variants_list, cmac_bins_count, i, mac, causal_idxs, b,
                   output, stored, causal_variants_cmac, causal_variants,
                   non_causal_variants, n_added>>
    /\ UNCHANGED <<ldvars, sim, prog>>

\* one iteration of while current_cmac < cmac (lines 349-354)
SelectLoop ==
    /\ pc = "sel_loop"
    /\ current_cmac < s_cmac
    /\ \E mac_ \in macs :
          /\ mac_ = 0 => ZeroDraws(combo) < MaxZeroDraws
          /\ IF current_cmac + mac_ <= s_cmac
             THEN /\ combo' = Append(combo, mac_)
                  /\ current_cmac' = current_cmac + mac_
                  /\ macs' = Eligible(macs, s_cmac - (current_cmac + mac_))
             ELSE UNCHANGED <<combo, current_cmac, macs>>
    /\ UNCHANGED <<caller, s_map, s_cmac, selected_variants, pc>>
    /\ UNCHANGED <<mode, n_variants_list, cmac_bins_count, i, mac, causal_idxs, b,
                   output, stored, causal_variants_cmac, causal_variants,
                   non_causal_variants, n_added>>
    /\ UNCHANGED <<ldvars, sim, prog>>

\* np.random.choice(macs) with macs empty raises ValueError (line 350)
SelectRaise ==
    /\ pc = "sel_loop"
    /\ current_cmac < s_cmac
    /\ macs = {}
    /\ pc' = "raised"
    /\ UNCHANGED <<mode, n_variants_list, cmac_bins_count, i, mac, causal_idxs, b,
                   output, stored, causal_variants_cmac, causal_variants,
                   non_causal_variants, n_added>>
    /\ UNCHANGED <<selvars, ldvars, sim, prog>>

\* the while loop is left: selected_variants = list() (line 356)
SelectExit ==
    /\ pc = "sel_loop"
    /\ ~(current_cmac < s_cmac)
    /\ selected_variants' = <<>>
    /\ pc' = "sel_pick"
    /\ UNCHANGED <<caller, s_map, s_cmac, macs, combo, current_cmac>>
    /\ UNCHANGED <<mode, n_variants_list, cmac_bins_count, i, mac, causal_idxs, b,
                   output, stored, causal_variants_cmac, causal_variants,
                   non_causal_variants, n_added>>
    /\ UNCHANGED <<ldvars, sim, prog>>

\* one iteration of for mac in combo (lines 357-362): x in [0, 1) gives
\* i = int(n_variants * x) in 0..n_variants-1
SelectVariant ==
    /\ pc = "sel_pick"
    /\ Len(selected_variants) < Len(combo)
    /\ LET lst == s_map[combo[Len(selected_variants) + 1]]
       IN  \E i0 \in 0..(Len(lst) - 1) :
              \E v \in PickWindow(lst, i0) :
                 selected_variants' = Append(selected_variants, v)
    /\ UNCHANGED <<caller, s_map, s_cmac, macs, combo, current_cmac, pc>>
    /\ UNCHANGED <<mode, n_variants_list, cmac_bins_count, i, mac, causal_idxs, b,
                   output, stored, causal_variants_cmac, causal_variants,
                   non_causal_variants, n_added>>
    /\ UNCHANGED <<ldvars, sim, prog>>

\* return np.array(selected_variants) to a direct caller (line 364)
DirectReturn ==
    /\ pc = "sel_pick"
    /\ caller = "direct"
    /\ Len(selected_variants) = Len(combo)
    /\ pc' = "returned"
    /\ UNCHANGED <<mode, n_variants_list, cmac_bins_count, i, mac, causal_idxs, b,
                   output, stored, causal_variants_cmac, causal_variants,
                   non_causal_variants, n_added>>
    /\ UNCHANGED <<selvars, ldvars, sim, prog>>

(***************************************************************************)
(* RVsimulation.__init__ on the masks: the linkage matrix of the           *)
(* chromosome and the sub-block of every stored set.                       *)
(***************************************************************************)
\* the next chromosome, its genotype matrix given: mac is its row sums (run(),
\* lines 398-403) and vset_ld_dict[chr] its linkage matrix (lines 90-93)
ForChrGeno ==
    /\ pc = "chr"
    /\ i < Len(n_variants_list)
    /\ \E g \in Genotypes(n_variants_list[i + 1]) :
          /\ \E c \in (IF mode = "causal" THEN CausalArrays(Len(g)) ELSE {<<>>}) :
                EnterChr(RowSums(g), c)
          /\ geno' = g
          /\ vset_ld' = LdMatrix(g)
    /\ sub_ld' = <<>>
    /\ UNCHANGED <<sim, prog>>

\* _get_cov_mat on the entry just stored: for numeric_idx in gene_numeric_idx,
\* the block vset_ld[numeric_idx][:, numeric_idx] (lines 124-126)
GetCovMat ==
    /\ pc = "bin"
    /\ stored # <<>>
    /\ sub_ld = <<>>
    /\ stored[1].sets # <<>>
    /\ sub_ld' = [k \in 1..Len(stored[1].sets) |-> SubBlock(vset_ld, stored[1].sets[k])]
    /\ UNCHANGED <<mbvars, selvars, geno, vset_ld, sim, prog>>

SimIdle == sim = <<>>
ProgIdle == prog = <<>>

(***************************************************************************)
(* Spec: one call of a mask builder.                                       *)
(***************************************************************************)
Init == MbEntry /\ SelIdle /\ LdIdle /\ SimIdle /\ ProgIdle

Next ==
    \/ ForChr \/ ForBin \/ EndChr \/ ReturnMasks \/ NullPass
    \/ CausalDraw \/ CausalReturn \/ FillerDraw \/ FillerReturn
    \/ SelectCall \/ SelectLoop \/ SelectRaise \/ SelectExit \/ SelectVariant

Spec == Init /\ [][Next]_vars

(***************************************************************************)
(* SpecSelect: one direct call select_variants_for_cmac(mac_positions,     *)
(* cmac), the map built from a MAC vector as at lines 303-305.             *)
(***************************************************************************)
InitSelect ==
    /\ mode = "none" /\ n_variants_list = <<>> /\ cmac_bins_count = 0 /\ i = 0
    /\ \E n \in 1..MaxVariants : mac \in MacVectors(n)
    /\ causal_idxs = <<>> /\ b = 0 /\ output = <<>> /\ stored = <<>>
    /\ causal_variants_cmac = 0 /\ causal_variants = <<>>
    /\ non_causal_variants = <<>> /\ n_added = 0
    /\ pc = "sel_call"
    /\ caller = "direct"
    /\ s_map = mac_positions(mac)
    /\ s_cmac \in 0..MaxTarget
    /\ macs = {} /\ combo = <<>> /\ current_cmac = 0 /\ selected_variants = <<>>
    /\ LdIdle /\ SimIdle /\ ProgIdle

NextSelect ==
    \/ SelectCall \/ SelectLoop \/ SelectRaise \/ SelectExit \/ SelectVariant
    \/ DirectReturn

SpecSelect == InitSelect /\ [][NextSelect]_vars

(***************************************************************************)
(* SpecLD: a mask builder on chromosomes given by their genotype           *)
(* matrices, followed by the linkage sub-blocks of the stored sets.        *)
(***************************************************************************)
NextLD ==
    \/ ForChrGeno \/ GetCovMat \/ ForBin \/ EndChr \/ ReturnMasks \/ NullPass
    \/ CausalDraw \/ CausalReturn \/ FillerDraw \/ FillerReturn
    \/ SelectCall \/ SelectLoop \/ SelectRaise \/ SelectExit \/ SelectVariant

SpecLD == Init /\ [][NextLD]_vars

(***************************************************************************)
(* SpecNull: creating_mask_null alone, with the scheduling of its random   *)
(* draws: the loops keep running, and a pass that can add a set to output  *)
(* at every visit of the loop head is eventually drawn (every permutation  *)
(* and every width has a positive probability at each pass).               *)
(***************************************************************************)
InitNull == Init /\ mode = "null"

NextNull == ForChr \/ ForBin \/ EndChr \/ ReturnMasks \/ NullPass

\* a pass that adds at least one set
ProductivePass == NullPass /\ Len(output') > Len(output)

SpecNull ==
    /\ InitNull
    /\ [][NextNull]_vars
    /\ WF_vars(NextNull)
    /\ SF_vars(ProductivePass)

(***************************************************************************)
(* The test runner and the aggregation of RVsimulation, followed on one    *)
(* bin: chromosome c holds n_sets[c] sets of the bin, each tested once by  *)
(* _variant_set_test_, and run() pools the counts of the bin over the      *)
(* chromosomes.  A p-value is NaN, +inf, -inf or a finite number in units  *)
(* of 1e-7.                                                                *)
(***************************************************************************)
MaxVoxels == 2   \* trait dimensions (n_voxels)
MaxSets == 2     \* sets of the bin held by one chromosome

\* the significance threshold 2.5e-6 passed at line 466, in units of 1e-7
sig_thresh == 25

NaN == <<"nan", 0>>
PosInf == <<"pinf", 0>>
NegInf == <<"ninf", 0>>
Finite(v) == <<"fin", v>>
IsFinite(p) == p[1] = "fin"

\* the p-values the external test may return for one dimension
PValues == {NaN, PosInf, NegInf} \cup {Finite(v) : v \in {0, sig_thresh, 10000000}}

\* pvalues < self.sig_thresh, elementwise, as IEEE 754 compares
LessThan(p, t) ==
    CASE p[1] = "nan" -> FALSE
      [] p[1] = "pinf" -> FALSE
      [] p[1] = "ninf" -> TRUE
      [] OTHER -> p[2] < t

\* sig_count = np.nansum(pvalues < self.sig_thresh) (line 190): the sum of a
\* boolean array, which holds no NaN
nansum_lt(pv, t) == Cardinality({d \in 1..Len(pv) : LessThan(pv[d], t)})

\* "_".join([str(x) for x in cmac_bin]) (line 208)
cmac_bin_str(bn) == ToString(bn[1]) \o "_" \o ToString(bn[2])

\* the columns of the DataFrame in order (lines 201, 206-211)
Columns == [k \in 1..Len(cmac_bins) |-> cmac_bin_str(cmac_bins[k])]

RECURSIVE Pool(_, _)
\* bin_sig_count_dict[cmac_bin].extend(sig_count_list), chromosome by
\* chromosome (lines 202-204)
Pool(lists, c) == IF c > Len(lists) THEN <<>> ELSE lists[c] \o Pool(lists, c + 1)

\* np.mean(sig_count_list) / self.n_voxels (line 209): NaN for an empty list,
\* otherwise the rational sum / (len * n_voxels), kept as <<"num", sum, len * n_voxels>>
MeanOverVoxels(lst, nv) ==
    IF lst = <<>> THEN <<"nan", 0, 0>> ELSE <<"num", SumSeq(lst), Len(lst) * nv>>

InitSim ==
    /\ MbIdle /\ pc = "idle" /\ SelIdle /\ LdIdle /\ ProgIdle
    /\ \E nv \in 1..MaxVoxels, k \in 1..NBinsUsed, ns \in [1..NChr -> 0..MaxSets] :
          sim = [pc |-> "test", n_voxels |-> nv, bin |-> k, n_sets |-> ns, chr |-> 1,
                 lists |-> [c \in 1..NChr |-> <<>>], pvalues |-> <<>>, sig_count |-> 0,
                 col |-> <<>>]

\* _variant_set_test_ on the next set of the followed bin (lines 167-176 and
\* 187-192): the external test returns one p-value per dimension
TestSet ==
    /\ sim.pc = "test"
    /\ sim.chr <= NChr
    /\ Len(sim.lists[sim.chr]) < sim.n_sets[sim.chr]
    /\ \E pv \in [1..sim.n_voxels -> PValues] :
          LET cnt == nansum_lt(pv, sig_thresh)
          IN  sim' = [sim EXCEPT !.pvalues = pv, !.sig_count = cnt,
                                 !.lists[sim.chr] = Append(@, cnt)]
    /\ UNCHANGED <<mbvars, selvars, ldvars, prog>>

\* sig_count_dict[bin] = sig_count_list: the chromosome's sets of the bin are
\* done (lines 177-178)
NextSimChr ==
    /\ sim.pc = "test"
    /\ sim.chr <= NChr
    /\ Len(sim.lists[sim.chr]) = sim.n_sets[sim.chr]
    /\ sim' = [sim EXCEPT !.chr = @ + 1, !.pvalues = <<>>, !.sig_count = 0]
    /\ UNCHANGED <<mbvars, selvars, ldvars, prog>>

\* run(sample_id), lines 201-211, for the followed bin
Aggregate ==
    /\ sim.pc = "test"
    /\ sim.chr = NChr + 1
    /\ sim' = [sim EXCEPT !.pc = "done",
                           !.col = <<[pos |-> sim.bin,
                                      label |-> Columns[sim.bin],
                                      pooled |-> Pool(sim.lists, 1),
                                      value |-> MeanOverVoxels(Pool(sim.lists, 1),
                                                               sim.n_voxels)]>>]
    /\ UNCHANGED <<mbvars, selvars, ldvars, prog>>

NextSim == TestSet \/ NextSimChr \/ Aggregate

SpecSim == InitSim /\ [][NextSim]_vars

(***************************************************************************)
(* SpecRun: one execution of run(args, log).  An option of args is given   *)
(* (TRUE) or None (FALSE); every call into a collaborator (a loader, the   *)
(* mask builder, the simulation, open) returns or raises.                  *)
(***************************************************************************)
MaxLdrs == 2   \* largest number of LDRs of the null model / the LOCO predictions

Options == {"sparse_genotype", "null_model", "perm", "causal_idx", "loco_preds", "n_ldrs"}

\* the test of check_input with the --perm test left out
RequiredMissingNoPerm(args) == ~args["sparse_genotype"] \/ ~args["null_model"]

\* the three tests of check_input (lines 368-373)
RequiredMissing(args) ==
    ~args["sparse_genotype"] \/ ~args["null_model"] \/ ~args["perm"]

\* loco_preds.ldr_col[1] - loco_preds.ldr_col[0] != null_model.n_ldrs (line 424)
DimsDiffer(loco_dim, n_ldrs) == loco_dim # n_ldrs

\* loco_preds in locals(): the keys of locals() are the names, never the object
InLocals(bound) == FALSE

InitRun ==
    /\ MbIdle /\ pc = "idle" /\ SelIdle /\ LdIdle /\ SimIdle
    /\ \E args \in [Options -> BOOLEAN] :
          prog = [pc |-> "check_input", args |-> args, loaded |-> {}, n_ldrs |-> 0,
                  loco_dim |-> 0, exc |-> FALSE, file |-> 0]

\* an exception raised inside the try block: the finally clause runs next
Raise(pg) == [pg EXCEPT !.pc = "finally", !.exc = TRUE]

\* chr_list = check_input(args) (line 383), outside the try block
CheckInput ==
    /\ prog.pc = "check_input"
    /\ prog' = IF RequiredMissing(prog.args)
               THEN [prog EXCEPT !.pc = "raised"]
               ELSE [prog EXCEPT !.pc = "load_null"]
    /\ UNCHANGED <<mbvars, selvars, ldvars, sim>>

\* null_model = NullModel(args.null_model); null_model.select_ldrs(args.n_ldrs)
\* (lines 386-388)
LoadNull ==
    /\ prog.pc = "load_null"
    /\ \/ \E n \in 1..MaxLdrs :
             prog' = [prog EXCEPT !.pc = "load_geno", !.n_ldrs = n,
                                  !.loaded = @ \cup {"null_model"}]
       \/ prog' = Raise(prog)
    /\ UNCHANGED <<mbvars, selvars, ldvars, sim>>

\* the loop over chr_list reading the sparse genotypes (lines 391-408)
LoadGeno ==
    /\ prog.pc = "load_geno"
    /\ \/ prog' = [prog EXCEPT !.pc = "load_causal",
                                !.loaded = @ \cup {"sparse_genotype"}]
       \/ prog' = Raise(prog)
    /\ UNCHANGED <<mbvars, selvars, ldvars, sim>>

\* lines 410-416
LoadCausal ==
    /\ prog.pc = "load_causal"
    /\ IF prog.args["causal_idx"]
       THEN \/ prog' = [prog EXCEPT !.pc = "load_loco", !.loaded = @ \cup {"causal_idx"}]
            \/ prog' = Raise(prog)
       ELSE prog' = [prog EXCEPT !.pc = "load_loco"]
    /\ UNCHANGED <<mbvars, selvars, ldvars, sim>>

\* lines 419-432: the LOCO predictions are read and, when their dimension
\* differs from null_model.n_ldrs, ValueError is raised
LoadLoco ==
    /\ prog.pc = "load_loco"
    /\ IF prog.args["loco_preds"]
       THEN \/ \E d \in 1..MaxLdrs :
                  LET pg == [prog EXCEPT !.loco_dim = d, !.loaded = @ \cup {"loco_preds"}]
                  IN  prog' = IF DimsDiffer(d, prog.n_ldrs)
                              THEN Raise(pg)
                              ELSE [pg EXCEPT !.pc = "load_perm"]
            \/ prog' = Raise(prog)
       ELSE prog' = [prog EXCEPT !.pc = "load_perm"]
    /\ UNCHANGED <<mbvars, selvars, ldvars, sim>>

\* perm = PermDistribution(args.perm) (lines 442-443)
LoadPerm ==
    /\ prog.pc = "load_perm"
    /\ \/ prog' = [prog EXCEPT !.pc = "masks", !.loaded = @ \cup {"perm"}]
       \/ prog' = Raise(prog)
    /\ UNCHANGED <<mbvars, selvars, ldvars, sim>>

\* lines 446-449: the mask builder returns, or (causal mode) the selector raises
CreateMasks ==
    /\ prog.pc = "masks"
    /\ \/ prog' = [prog EXCEPT !.pc = "simulate"]
       \/ prog.args["causal_idx"] /\ prog' = Raise(prog)
    /\ UNCHANGED <<mbvars, selvars, ldvars, sim>>

\* lines 452-470
Simulate ==
    /\ prog.pc = "simulate"
    /\ \/ prog' = [prog EXCEPT !.pc = "write"]
       \/ prog' = Raise(prog)
    /\ UNCHANGED <<mbvars, selvars, ldvars, sim>>

\* lines 472-479: the row is appended to the results file, or open raises
WriteResults ==
    /\ prog.pc = "write"
    /\ \/ prog' = [prog EXCEPT !.pc = "finally", !.file = @ + 1]
       \/ prog' = Raise(prog)
    /\ UNCHANGED <<mbvars, selvars, ldvars, sim>>

\* the finally clause (lines 481-483): with --loco-preds given, the name
\* loco_preds is read, which raises UnboundLocalError when it was never bound
Finally ==
    /\ prog.pc = "finally"
    /\ LET unbound == prog.args["loco_preds"] /\ "loco_preds" \notin prog.loaded
           closes == prog.args["loco_preds"] /\ ~unbound /\ InLocals(TRUE)
       IN  prog' = IF unbound \/ prog.exc
                   THEN [prog EXCEPT !.pc = "raised", !.exc = TRUE]
                   ELSE [prog EXCEPT !.pc = "returned",
                                     !.loaded = IF closes THEN @ \ {"loco_preds"} ELSE @]
    /\ UNCHANGED <<mbvars, selvars, ldvars, sim>>

NextRun ==
    \/ CheckInput \/ LoadNull \/ LoadGeno \/ LoadCausal \/ LoadLoco \/ LoadPerm
    \/ CreateMasks \/ Simulate \/ WriteResults \/ Finally

SpecRun == InitRun /\ [][NextRun]_vars

(***************************************************************************)
(* The sets a builder holds: those collected for the bin in progress and   *)
(* those of the entry just stored (both of the chromosome being processed, *)
(* whose MAC vector is mac).                                               *)
(***************************************************************************)
HeldSets ==
    {<<bin, output[k]>> : k \in 1..Len(output)}
        \cup UNION {{<<stored[e].bin, stored[e].sets[k]>> :
                         k \in 1..Len(stored[e].sets)} : e \in 1..Len(stored)}

SetMacSum(set) == SumSeq([k \in 1..Len(set) |-> mac[set[k]]])

\* C1: null mode: the MAC sum of every set collected or stored for a bin
\* (lo, hi) satisfies lo <= sum <= hi.
C1_NullSetsInBin ==
    mode = "null" =>
        \A h \in (IF b = 0 THEN {} ELSE HeldSets) :
            h[1][1] <= SetMacSum(h[2]) /\ SetMacSum(h[2]) <= h[1][2]

\* a null-mode entry of bin (3, 3) was stored with a set in it
C1_Witness ==
    /\ mode = "null" /\ pc = "bin" /\ stored # <<>>
    /\ stored[1].bin = <<3, 3>> /\ Len(stored[1].sets) >= 1

\* C2: causal mode: every set collected or stored for a bin (lo, hi) holds at
\* least one index of the chromosome's causal index array, and the sum of the
\* MACs of its members (the array np.sum(mac[selected_variants]) sums, causal
\* plus filler) satisfies lo <= sum <= hi.  For every one of the 14 bins and
\* every pair of draws (c, t) of the causal and the non-causal target, the
\* second draw has a value to give and lo <= c + t <= hi (evaluated at the
\* builder's entry, the draws depend on the bin alone).
C2_CausalSetsInBin ==
    /\ mode = "causal" =>
          \A h \in (IF b = 0 THEN {} ELSE HeldSets) :
              /\ Range(h[2]) \cap Range(causal_idxs) # {}
              /\ h[1][1] <= SetMacSum(h[2]) /\ SetMacSum(h[2]) <= h[1][2]
    /\ (mode = "causal" /\ pc = "chr" /\ i = 0) =>
          \A k \in 1..Len(cmac_bins) : \A c \in CausalTargets(cmac_bins[k]) :
              /\ NonCausalTargets(cmac_bins[k], c) # {}
              /\ \A t \in NonCausalTargets(cmac_bins[k], c) :
                    cmac_bins[k][1] <= c + t /\ c + t <= cmac_bins[k][2]

\* a causal-mode entry of bin (3, 3) was stored with two sets in it
C2_Witness ==
    /\ mode = "causal" /\ pc = "bin" /\ stored # <<>>
    /\ stored[1].bin = <<3, 3>> /\ Len(stored[1].sets) = 2

\* C4: every stored entry holds exactly n_genes(c) sets, the chromosome's
\* floor-rounded quota, also when the quota is 0.
C4_ExactQuota ==
    \A e \in 1..Len(stored) : Len(stored[e].sets) = n_genes

\* C5: causal mode: the array the selector returns for the non-causal map
\* holds no causal index.
C5_FillerDisjoint ==
    mode = "causal" => Range(non_causal_variants) \cap Range(causal_idxs) = {}

(***************************************************************************)
(* The selector called directly.                                           *)
(***************************************************************************)
MinKey(keys) == CHOOSE x \in keys : \A y \in keys : x <= y

\* C3 as stated, on the maps whose keys are all positive: for a target >= the
\* smallest MAC key of the map the call returns variants whose MACs sum to the
\* target: it never raises and never reaches a loop state it cannot leave.
C3_AlwaysExact ==
    (caller = "direct" /\ DOMAIN s_map # {} /\ s_cmac >= MinKey(DOMAIN s_map)
        /\ 0 \notin DOMAIN s_map) =>
        /\ pc # "raised"
        /\ ~(pc = "sel_loop" /\ current_cmac < s_cmac /\ macs \subseteq {0})
        /\ pc = "returned" => SetMacSum(selected_variants) = s_cmac

\* C3 amended: whenever the call returns, the MACs of the returned variants sum
\* exactly to the target; and when 1 is a key of the map and 0 is not, the call
\* never raises, every loop iteration has a value to draw, and the loop ends
\* within target iterations.
C3_ExactWhenReturns ==
    caller = "direct" =>
        /\ pc = "returned" => SetMacSum(selected_variants) = s_cmac
        /\ (1 \in DOMAIN s_map /\ 0 \notin DOMAIN s_map) =>
              /\ pc # "raised"
              /\ (pc = "sel_loop" /\ current_cmac < s_cmac) => macs # {}
              /\ Len(combo) <= s_cmac

\* a direct call with target 3 returned three variants of MAC 1
C3_Witness ==
    /\ caller = "direct" /\ pc = "returned" /\ s_cmac = 3
    /\ combo = <<1, 1, 1>> /\ Len(selected_variants) = 3

(***************************************************************************)
(* The linkage sub-blocks.                                                 *)
(***************************************************************************)
MaxHi == CHOOSE x \in {cmac_bins[k][2] : k \in 1..Len(cmac_bins)} :
            \A k \in 1..Len(cmac_bins) : cmac_bins[k][2] <= x

\* C10: every entry of the linkage sub-block read for a stored set equals the
\* integer dot product of the two variants' genotype rows: it is at most twice
\* the bin's upper bound, and twice the largest upper bound of the 14 bins is
\* below 2^16, so that no entry a covariance matrix uses has wrapped.
C10_SubBlockExact ==
    /\ 2 * MaxHi < UInt16
    /\ \A k \in 1..Len(sub_ld) :
          LET set == stored[1].sets[k]
          IN  \A r, c \in 1..Len(set) :
                 /\ sub_ld[k][r][c] = Dot(geno, set[r], set[c])
                 /\ Dot(geno, set[r], set[c]) <= 2 * stored[1].bin[2]

\* sub-blocks were read for a stored set while the linkage matrix of the
\* chromosome holds a wrapped entry (of variants outside the set)
C10_Witness ==
    /\ sub_ld # <<>>
    /\ Len(stored[1].sets[1]) >= 2
    /\ \E v, u \in 1..Len(geno) : vset_ld[v][u] # Dot(geno, v, u)

(***************************************************************************)
(* The test runner and the aggregation.                                    *)
(***************************************************************************)
\* C6: the count returned for a set is the number of dimensions whose
\* p-value is finite and below sig_thresh: a NaN, +inf or -inf p-value is
\* never counted as significant.
C6_NonFiniteNotCounted ==
    sim.pvalues # <<>> =>
        sim.sig_count =
            Cardinality({d \in 1..Len(sim.pvalues) :
                            IsFinite(sim.pvalues[d]) /\ sim.pvalues[d][2] < sig_thresh})

\* C7: the column written for a bin carries the label "<lo>_<hi>" at the bin's
\* position among the 14, and its value is the number
\* (sum of the pooled counts) / (number of pooled sets * n_voxels), in [0, 1],
\* whatever number of sets (none included) each chromosome contributed.
C7_RatePerBin ==
    /\ Len(Columns) = 14
    /\ \A k \in 1..Len(sim.col) :
          LET col == sim.col[k]
          IN  /\ col.label = ToString(cmac_bins[col.pos][1]) \o "_"
                                \o ToString(cmac_bins[col.pos][2])
              /\ col.value[1] = "num"
              /\ col.value[2] = SumSeq(col.pooled)
              /\ col.value[3] = Len(col.pooled) * sim.n_voxels
              /\ 0 <= col.value[2] /\ col.value[2] <= col.value[3]

(***************************************************************************)
(* run().                                                                  *)
(***************************************************************************)
\* C8: with a required option absent run() raises in check_input before any
\* input is loaded; with LOCO predictions whose dimension differs from the
\* null model's n_ldrs run() raises and goes no further; and an execution that
\* raised has appended nothing to the results file.
C8_FatalBeforeOutput ==
    /\ (\E o \in {"sparse_genotype", "null_model", "perm"} : ~prog.args[o]) =>
          /\ prog.pc \in {"check_input", "raised"}
          /\ prog.loaded = {} /\ prog.file = 0
    /\ ("loco_preds" \in prog.loaded /\ prog.loco_dim # prog.n_ldrs) =>
          /\ prog.pc \in {"finally", "raised"}
          /\ prog.exc /\ prog.file = 0
    /\ prog.pc = "raised" => prog.file = 0
    /\ prog.file = 1 => prog.pc \in {"finally", "returned"} /\ ~prog.exc

\* run() raised on a dimension mismatch, after its inputs were loaded
C8_Witness ==
    /\ prog.pc = "raised" /\ "loco_preds" \in prog.loaded
    /\ prog.loco_dim # prog.n_ldrs /\ prog.file = 0

(***************************************************************************)
(* Termination of the null-mode sampling loop.                             *)
(***************************************************************************)
\* some group of w variants of the chromosome has its MAC sum in the bin, for
\* a width w the draw of line 249 can give, w <= maxw
Feasible(m, bn, maxw) ==
    \E w \in window_range(bn) :
        /\ w <= maxw
        /\ \E S \in SUBSET (1..Len(m)) :
              /\ Cardinality(S) = w
              /\ LET sum == SumSeq([k \in 1..w |-> m[SetToSeq(S)[k]]])
                 IN  bn[1] <= sum /\ sum <= bn[2]

IsPrefix(s, t) == Len(s) <= Len(t) /\ SubSeq(t, 1, Len(s)) = s

\* a pass that leaves the loop running keeps the sets already collected
KeepsCollected == [][(pc = "pass" /\ pc' = "pass") => IsPrefix(output, output')]_vars

\* C9: with a quota >= 1 and a group of w variants in the bin for an
\* admissible width w <= number of variants, the sampling loop eventually
\* collects n_genes sets and exits; a pass that yields too few sets keeps the
\* sets collected.
C9_TerminatesIfGroup ==
    /\ (pc = "pass" /\ n_genes >= 1 /\ Feasible(mac, bin, Len(mac))) ~> (pc = "bin")
    /\ KeepsCollected

\* what the loop of lines 246-261 does give: the same with an admissible width
\* w < number of variants (a window is examined only while
\* start + window_size < n_variants, line 251).
TerminatesIfWindow ==
    /\ (pc = "pass" /\ n_genes >= 1 /\ Feasible(mac, bin, Len(mac) - 1))
          ~> (pc = "bin" /\ stored # <<>>)
    /\ KeepsCollected

\* a pass ended with fewer sets than the quota, and the loop goes on with the
\* set it collected
C9_Witness ==
    /\ mode = "null" /\ pc = "pass" /\ Len(output) = 1 /\ n_genes = 2
    /\ Feasible(mac, bin, Len(mac) - 1)

(***************************************************************************)
(* Repeated indices in a set.                                              *)
(***************************************************************************)
Distinct(set) == \A r, c \in 1..Len(set) : r # c => set[r] # set[c]

\* C11: every set collected or stored by a mask builder holds pairwise
\* distinct variant indices, in null mode and in causal mode.
C11_DistinctIndices ==
    \A h \in (IF b = 0 THEN {} ELSE HeldSets) : Distinct(h[2])

\* the null-mode half, which holds: a window of a permutation holds no index
\* twice
NullSetsDistinct ==
    mode = "null" => \A h \in (IF b = 0 THEN {} ELSE HeldSets) : Distinct(h[2])

\* the causal-mode half with the causal indices left aside: one selector call
\* on the non-causal map returns no non-causal index twice.  It does not hold:
\* each pick of lines 357-362 is drawn independently of the picks before it
\* (mac = [1, 1], causal_idxs = [0], bin (3, 3): filler [1, 1]).
FillerDistinct ==
    mode = "causal" =>
        Distinct(SelectSeq(non_causal_variants,
                           LAMBDA v : v \notin Range(causal_idxs)))

====
